---- MODULE Spec2Model ----
\* Model of the rates cache of src/src/db.rs: the sled store behind Db, the
\* bootstrap of a new store (Db::init / Db::bootstrap_new), the incremental
\* refresh (Db::update) and the read operations built on the store.
EXTENDS Integers, Sequences, FiniteSets, TLC

VARIABLES
    pathExists,   \* the database path exists on disk (Db::init, db.rs:31)
    handle,       \* the caller holds a Db returned by Db::init
    store,        \* the sled tree: a function from byte keys to stored blobs
    pc,           \* position of the call in progress ("idle" when none)
    op,           \* the call in progress, or the last call: "none", "open", "bootstrap", "update"
    result,       \* outcome of the last finished call: "none", "ok" or an error kind
    dates,        \* local `dates` of bootstrap_new / update: the fetched snapshots
    pos,          \* index into `dates` of the element the loop handles next
    current,      \* local `current` of update: the fetched daily date, <<>> when unset
    db_current,   \* local `db_current` of update: the stored current date, <<>> when unset
    fetches,      \* the remote operations invoked by the call, in order
    store0,       \* the store as it was when the call (in SpecStore: the latest put) started
    seenMax,      \* the latest date the pointer resolved to after a successful call
    remote,       \* what the remote feed serves (used by SpecRemote only)
    again,        \* the last call was a successful update and the remote has not changed since it began
    lastPut,      \* for every key ever put, the value of the latest put under it
    unflushed,    \* the call in progress has made a put that no flush of the call has followed
    reply,        \* the answer to the latest read of a client between calls
    rd,           \* a get_current_rates call running beside the calls: position, key read, answer
    u2            \* a second Db::update call running beside the first: position and locals

vars == <<pathExists, handle, store, pc, op, result, dates, pos, current,
          db_current, fetches, store0, seenMax, remote, again, lastPut,
          unflushed, reply, rd, u2>>

--------------------------------------------------------------------------
\* Bounds of the model.

\* Longest feed the remote operations return in Spec.
MaxFeedLen == 2

\* In SpecRemote, how many of the newest published days a feed may lag behind.
MaxLag == 1

--------------------------------------------------------------------------
\* Calendar dates and keys.
\* A date string "YYYY-MM-DD" is modelled by the triple <<Y, M, D>> of its
\* fields; a NaiveDate by its number of days since 1970-01-01.

\* The date strings the feeds use.  Distances in days between the valid ones:
\* 1 (01-01..01-02, 03-31..04-01), 89 (01-02..03-31), 90 (01-01..03-31 and
\* 01-02..04-01) and 91 (01-01..04-01).
ValidDateStrs == { <<2020, 1, 1>>, <<2020, 1, 2>>, <<2020, 3, 31>>, <<2020, 4, 1>> }

\* A string that is not a calendar date ("2020-02-30").
BadDateStr == <<2020, 2, 30>>

DateStrs == ValidDateStrs \cup {BadDateStr}

IsLeap(y) == (y % 4 = 0 /\ y % 100 # 0) \/ y % 400 = 0

DaysInMonth(y, m) ==
    IF m = 2 THEN (IF IsLeap(y) THEN 29 ELSE 28)
    ELSE IF m \in {4, 6, 9, 11} THEN 30 ELSE 31

\* NaiveDate::from_str succeeds exactly on real calendar dates.
IsValidDate(s) ==
    /\ s[2] \in 1..12
    /\ s[3] >= 1
    /\ s[3] <= DaysInMonth(s[1], s[2])

\* Days from 1970-01-01 to the civil date y-m-d (proleptic Gregorian).
DaysFromCivil(y, m, d) ==
    LET yy  == IF m <= 2 THEN y - 1 ELSE y
        era == yy \div 400
        yoe == yy - era * 400
        mp  == IF m > 2 THEN m - 3 ELSE m + 9
        doy == (153 * mp + 2) \div 5 + d - 1
        doe == yoe * 365 + yoe \div 4 - yoe \div 100 + doy
    IN  era * 146097 + doe - 719468

Ok(v) == [ok |-> TRUE, val |-> v]
Err(e) == [ok |-> FALSE, err |-> e]

\* NaiveDate::from_str: the parsed date, or a parse error.
ParseDate(s) ==
    IF IsValidDate(s) THEN Ok(DaysFromCivil(s[1], s[2], s[3])) ELSE Err("parse_error")

\* Date::value_as_date: the snapshot's `value` parsed as a NaiveDate.
ValueAsDate(s) == ParseDate(s)

SecondsPerDay == 86400

\* NaiveDate::and_hms(0, 0, 0).timestamp(): seconds since the epoch.
Timestamp(day) == day * SecondsPerDay

\* The four low bytes of n, most significant first, for 0 <= n < 2^31.
LowBytes(n) ==
    << (n \div 16777216) % 256, (n \div 65536) % 256, (n \div 256) % 256, n % 256 >>

\* i64::to_be_bytes: the 8 bytes of the two's complement of n, most significant
\* first (for -2^31 <= n < 2^31).
ToBeBytes(n) ==
    IF n >= 0
    THEN <<0, 0, 0, 0>> \o LowBytes(n)
    ELSE LET b == LowBytes(-n - 1)
         IN  <<255, 255, 255, 255>> \o [i \in 1..4 |-> 255 - b[i]]

\* date_as_key: the key of a date string, or a parse error.
date_as_key(s) ==
    LET d == ParseDate(s)
    IN  IF d.ok THEN Ok(ToBeBytes(Timestamp(d.val))) ELSE d

\* b"current"
CurrentKey == <<99, 117, 114, 114, 101, 110, 116>>

--------------------------------------------------------------------------
\* Records and their stored form.

\* Currency { name, rate }; rates are kept as the decimal text of the f64.
Currency(n, r) == [name |-> n, rate |-> r]

\* The base entry pushed by bootstrap_new and update.
EUR == Currency("EUR", "1.0")

\* Date { value, currencies }
Date(v, cs) == [value |-> v, currencies |-> cs]

\* The snapshot stored as it was fetched, with no base entry.
AsFetched(date) == date

\* date.currencies.push(Currency { name: "EUR", rate: 1.0 })
WithEUR(date) == [date EXCEPT !.currencies = Append(@, EUR)]

\* bincode::serialize of a value of type T ("bytes" for Vec<u8>, "Date" for Date).
Serialize(T, x) == [t |-> T, v |-> x]

\* bincode::deserialize::<T>: fails on a blob that does not encode a T.
Deserialize(T, blob) == IF blob.t = T THEN Ok(blob.v) ELSE Err("decode_error")

\* A store with no entries.
EmptyStore == <<>>

\* An insert that keeps the entry a key already has.
PutIfAbsent(s, k, T, x) == IF k \in DOMAIN s THEN s ELSE (k :> [t |-> T, v |-> x]) @@ s

\* Db::put: db.insert(key, encoded), an upsert.
Put(s, k, T, x) == (k :> Serialize(T, x)) @@ s

\* Db::get::<T>: Ok(<<>>) for an absent key, Ok(<<x>>) for a decoded value.
Get(s, T, k) ==
    IF k \notin DOMAIN s THEN Ok(<<>>)
    ELSE LET t == Deserialize(T, s[k])
         IN  IF t.ok THEN Ok(<<t.val>>) ELSE t

\* A lookup of the current snapshot that answers a missing target with absence.
CurrentOrAbsent(s) ==
    LET cur == Get(s, "bytes", CurrentKey)
    IN  IF ~cur.ok THEN cur
        ELSE IF cur.val = <<>> THEN Err("missing_current")
        ELSE LET date == Get(s, "Date", cur.val[1])
             IN  IF ~date.ok THEN date
                 ELSE IF date.val = <<>> THEN Ok(<<>>)
                 ELSE Ok(date.val[1])

\* Db::get_current_rates
get_current_rates(s) ==
    LET cur == Get(s, "bytes", CurrentKey)
    IN  IF ~cur.ok THEN cur
        ELSE IF cur.val = <<>> THEN Err("missing_current")
        ELSE LET date == Get(s, "Date", cur.val[1])
             IN  IF ~date.ok THEN date
                 ELSE IF date.val = <<>> THEN Err("missing_target")
                 ELSE Ok(date.val[1])

\* Db::get_day_rates
get_day_rates(s, day) ==
    LET k == date_as_key(day)
    IN  IF ~k.ok THEN k ELSE Get(s, "Date", k.val)

\* The date the current pointer resolves to: get_current_rates()?.value_as_date()
CurrentDate(s) ==
    LET c == get_current_rates(s)
    IN  IF c.ok THEN ValueAsDate(c.val.value) ELSE c

--------------------------------------------------------------------------
\* The decisions of Db::update.

NinetyDays == 90
OneDay == 1

\* A comparison that never answers "Less".
CmpNeverLess(a, b) == IF a = b THEN "Equal" ELSE "Greater"

\* current.cmp(&db_current)
Cmp(a, b) == IF a = b THEN "Equal" ELSE IF a > b THEN "Greater" ELSE "Less"

\* The match on `current - db_current` (a whole number of days): which remote
\* operation supplies `dates`.
FeedKind(d) ==
    IF d > NinetyDays THEN "hist"
    ELSE IF d < NinetyDays /\ d > OneDay THEN "last90"
    ELSE "daily"

\* A filter that lets every fetched snapshot through.
NewerOrNot(d, dbc) == TRUE

\* A filter that also lets through a snapshot of the stored current date.
NotOlder(d, dbc) == d >= dbc

\* date.value_as_date()? > db_current
IsNewer(d, dbc) == d > dbc

\* The loop without .rev(): first to last.
ForwardOrder(ds) == [i \in 1..Len(ds) |-> i]

\* The reversed loop stopping one element short of the front of the list.
RevOrderSkippingFront(ds) ==
    IF ds = <<>> THEN <<>> ELSE [i \in 1..(Len(ds) - 1) |-> Len(ds) + 1 - i]

\* dates.iter_mut().rev(): the indices of `dates` in the order the loop visits them.
IterOrder(ds) == [i \in 1..Len(ds) |-> Len(ds) + 1 - i]

\* The pointer entry written where the snapshot entry is due.
PointerInPlaceOfSnapshot(date) ==
    [k |-> CurrentKey, T |-> "bytes", x |-> date_as_key(date.value).val]

\* date.currencies.push(..); self.put(&date_as_key(&date.value)?, &date): the
\* entry update writes first for a newer snapshot.
SnapshotEntry(date) ==
    [k |-> date_as_key(date.value).val, T |-> "Date", x |-> WithEUR(date)]

\* The last element in place of the first.
Last(ds) == ds[Len(ds)]

\* dates.first() of bootstrap_new
First(ds) == ds[1]

--------------------------------------------------------------------------
\* The remote feed.

\* The USD rates the feed quotes.
FeedRates == {"1.1", "1.2"}

FeedSnapshots == { Date(v, <<Currency("USD", r)>>) : v \in DateStrs, r \in FeedRates }

SeqsUpTo(S, n) == UNION { [1..k -> S] : k \in 0..n }

\* Every feed of at most MaxFeedLen snapshots, in any order.
Feeds == SeqsUpTo(FeedSnapshots, MaxFeedLen)

\* What a fetch can return in Spec: a failure, or any feed / any snapshot.
AnyFeed == {Err("fetch_error")} \cup { Ok(f) : f \in Feeds }
AnyDaily == {Err("fetch_error")} \cup { Ok(s) : s \in FeedSnapshots }
AnySource == [hist |-> AnyFeed, last90 |-> AnyFeed, daily |-> AnyDaily]

\* Outcomes of a store or file operation: TRUE when it succeeds.
AnyIO == {TRUE, FALSE}
NoFault == {TRUE}

NoRemote == [daily |-> <<>>, hist |-> <<>>, last90 |-> <<>>]

\* The day number of a valid date string.
Day(v) == ValueAsDate(v).val

\* A feed is ordered newest-first (entries that are no dates are not compared).
NewestFirst(f) ==
    \A i, j \in 1..Len(f) :
        (i < j /\ IsValidDate(f[i].value) /\ IsValidDate(f[j].value))
            => Day(f[i].value) >= Day(f[j].value)

\* Newest-first, every entry a date, one entry per day.
StrictNewestFirst(f) ==
    /\ \A i \in 1..Len(f) : IsValidDate(f[i].value)
    /\ \A i, j \in 1..Len(f) : i < j => Day(f[i].value) > Day(f[j].value)

\* What a fetch can return in SpecSorted: a failure, or any newest-first feed.
SortedFeed == {Err("fetch_error")} \cup { Ok(f) : f \in { g \in Feeds : NewestFirst(g) } }
SortedSource == [hist |-> SortedFeed, last90 |-> SortedFeed, daily |-> AnyDaily]

\* The remote of SpecRemote publishes one snapshot per day of a set P of days.
Published(v) == Date(v, <<Currency("USD", "1.1")>>)

RECURSIVE NewestFirstOf(_)
NewestFirstOf(P) ==
    IF P = {} THEN <<>>
    ELSE LET m == CHOOSE x \in P : \A y \in P : Day(y) <= Day(x)
         IN  <<Published(m)>> \o NewestFirstOf(P \ {m})

Newest(P) == CHOOSE x \in P : \A y \in P : Day(y) <= Day(x)

\* A feed that misses its `lag` newest entries (a stale copy).
Lagged(f, lag) == SubSeq(f, 1 + lag, Len(f))

\* fetch_daily serves the newest published day, fetch_hist every published day,
\* fetch_last90 the published days of the 90 days up to the newest; each
\* newest-first, the two lists possibly stale.
RemoteOf(P, lagH, lag90) ==
    [daily  |-> <<Published(Newest(P))>>,
     hist   |-> Lagged(NewestFirstOf(P), lagH),
     last90 |-> Lagged(NewestFirstOf({v \in P : Day(Newest(P)) - Day(v) <= NinetyDays}),
                       lag90)]

RemoteStates ==
    { RemoteOf(P, lagH, lag90) :
        P \in (SUBSET ValidDateStrs) \ {{}}, lagH \in 0..MaxLag, lag90 \in 0..MaxLag }

\* Neither list is stale: both are newest-first and headed by the day
\* fetch_daily serves.
HeadedByDaily(r) ==
    /\ r.daily # <<>>
    /\ r.hist # <<>> /\ r.hist[1] = r.daily[1] /\ NewestFirst(r.hist)
    /\ r.last90 # <<>> /\ r.last90[1] = r.daily[1] /\ NewestFirst(r.last90)

RemoteSource == [hist |-> {Ok(remote.hist)}, last90 |-> {Ok(remote.last90)},
                 daily |-> {Ok(remote.daily[1])}]

--------------------------------------------------------------------------
\* Calls.

Max(a, b) == IF a >= b THEN a ELSE b

\* The entries of the store, with the two records kept about its writes.
disk == <<store, lastPut, unflushed>>

\* A successful Db::put (db.rs:118-129): the entry is upserted; it is the latest
\* put under its key, and no flush has followed it yet.
Written(k, T, x) ==
    /\ store' = Put(store, k, T, x)
    /\ lastPut' = [j \in DOMAIN lastPut \cup {k} |-> IF j = k THEN x ELSE lastPut[j]]
    /\ unflushed' = TRUE

\* No read has been answered.
NoReply == [q |-> "none"]

\* No get_current_rates call is running beside the calls.
NoReader == [pc |-> "idle", q |-> "none"]

\* No second update is running.
NoUpdate2 == [pc |-> "idle", result |-> "none"]

\* The call returns r, after a flush that succeeded (flushed) or with no flush
\* since its last put.  The store is left as it is.
Return(r, flushed) ==
    /\ pc' = "idle"
    /\ result' = r
    /\ unflushed' = (unflushed /\ ~flushed)
    /\ UNCHANGED <<lastPut, reply, rd, u2>>
    /\ seenMax' = IF r = "ok" /\ CurrentDate(store).ok
                  THEN <<IF seenMax = <<>> THEN CurrentDate(store).val
                         ELSE Max(seenMax[1], CurrentDate(store).val)>>
                  ELSE seenMax
    /\ again' = (remote # NoRemote /\ op = "update" /\ r = "ok")
    /\ UNCHANGED <<store, op, store0, remote>>

\* The call returns r without flushing.
Finish(r) == Return(r, FALSE)

\* A step inside a call that does not return.
Step(next) ==
    /\ pc' = next
    /\ UNCHANGED <<result, op, store0, seenMax, remote, again, reply, rd, u2>>

\* A call begins: its locals are fresh.
Begin(o, next) ==
    /\ pc = "idle"
    /\ pc' = next
    /\ op' = o
    /\ result' = "none"
    /\ dates' = <<>>
    /\ pos' = 0
    /\ current' = <<>>
    /\ db_current' = <<>>
    /\ fetches' = <<>>
    /\ store0' = store
    /\ unflushed' = FALSE
    /\ reply' = NoReply
    /\ u2' = NoUpdate2
    /\ UNCHANGED <<store, seenMax, remote, again, lastPut, rd>>

\* Db::init on an existing path: Db::open.
InitOpen(io) ==
    /\ ~handle
    /\ pathExists
    /\ Begin("open", "open")
    /\ UNCHANGED <<pathExists, handle>>

Open(io) ==
    /\ pc = "open"
    /\ \E ok \in io :
         /\ Finish(IF ok THEN "ok" ELSE "io_error")
         /\ handle' = ok
    /\ UNCHANGED <<pathExists, dates, pos, current, db_current, fetches>>

\* Db::init on a missing path: Db::bootstrap_new.
InitBootstrap ==
    /\ ~handle
    /\ ~pathExists
    /\ Begin("bootstrap", "b_fetch")
    /\ UNCHANGED <<pathExists, handle>>

\* fetch_hist().await? and dates.first().ok_or_else(..)?
BootstrapFetch(rs) ==
    /\ pc = "b_fetch"
    /\ fetches' = Append(fetches, "hist")
    /\ \E r \in rs :
         IF ~r.ok THEN Finish(r.err) /\ UNCHANGED dates
         ELSE IF r.val = <<>> THEN Finish("empty") /\ dates' = r.val
         ELSE Step("b_open") /\ dates' = r.val /\ UNCHANGED disk
    /\ UNCHANGED <<pathExists, handle, pos, current, db_current>>

\* Db::open(path)?
BootstrapOpen(io) ==
    /\ pc = "b_open"
    /\ \E ok \in io :
         IF ok THEN Step("b_current") /\ pathExists' = TRUE /\ UNCHANGED disk
         ELSE Finish("io_error") /\ pathExists' \in BOOLEAN
    /\ UNCHANGED <<handle, dates, pos, current, db_current, fetches>>

\* db.put(b"current", &date_as_key(&current_date.value)?).await?
BootstrapPutCurrent(io) ==
    /\ pc = "b_current"
    /\ LET k == date_as_key(First(dates).value)
       IN  IF ~k.ok THEN Finish(k.err) /\ UNCHANGED pos
           ELSE \E ok \in io :
                  IF ok THEN /\ Step("b_loop")
                             /\ Written(CurrentKey, "bytes", k.val)
                             /\ pos' = 1
                  ELSE Finish("io_error") /\ UNCHANGED pos
    /\ UNCHANGED <<pathExists, handle, dates, current, db_current, fetches>>

\* One turn of `for mut date in dates`.
BootstrapLoop(io) ==
    /\ pc = "b_loop"
    /\ LET date == dates[pos]
           day == date_as_key(date.value)
       IN  IF ~day.ok THEN Finish(day.err) /\ UNCHANGED pos
           ELSE \E ok \in io :
                  IF ok THEN /\ Step(IF pos = Len(dates) THEN "b_flush" ELSE "b_loop")
                             /\ Written(day.val, "Date", WithEUR(date))
                             /\ pos' = pos + 1
                  ELSE Finish("io_error") /\ UNCHANGED pos
    /\ UNCHANGED <<pathExists, handle, dates, current, db_current, fetches>>

\* db.inner.flush_async().await?; Ok(db)
BootstrapFlush(io) ==
    /\ pc = "b_flush"
    /\ \E ok \in io :
         /\ Return(IF ok THEN "ok" ELSE "io_error", ok)
         /\ handle' = ok
    /\ UNCHANGED <<pathExists, dates, pos, current, db_current, fetches>>

\* Db::update is called on a Db the caller holds.
UpdateStart ==
    /\ handle
    /\ u2.pc = "idle"
    /\ Begin("update", "u_daily")
    /\ UNCHANGED <<pathExists, handle>>

\* let current = currencies::fetch_daily().await?.value_as_date()?
UpdateFetchDaily(rs) ==
    /\ pc = "u_daily"
    /\ fetches' = Append(fetches, "daily")
    /\ \E r \in rs :
         IF ~r.ok THEN Finish(r.err) /\ UNCHANGED current
         ELSE LET d == ValueAsDate(r.val.value)
              IN  IF ~d.ok THEN Finish(d.err) /\ UNCHANGED current
                  ELSE Step("u_current") /\ current' = <<d.val>> /\ UNCHANGED disk
    /\ UNCHANGED <<pathExists, handle, dates, pos, db_current>>

\* let db_current = self.get_current_rates().await?.value_as_date()?, then the
\* match on current.cmp(&db_current).
UpdateGetCurrent(io) ==
    /\ pc = "u_current"
    /\ \E ok \in io :
         IF ~ok THEN Finish("io_error") /\ UNCHANGED db_current
         ELSE LET d == CurrentDate(store)
              IN  IF ~d.ok THEN Finish(d.err) /\ UNCHANGED db_current
                  ELSE /\ db_current' = <<d.val>>
                       /\ CASE Cmp(current[1], d.val) = "Equal" -> Finish("ok")
                            [] Cmp(current[1], d.val) = "Less" -> Finish("regression")
                            [] OTHER -> Step("u_fetch") /\ UNCHANGED disk
    /\ UNCHANGED <<pathExists, handle, dates, pos, current, fetches>>

\* let mut dates = match current - db_current { .. }
UpdateFetchDates(src) ==
    /\ pc = "u_fetch"
    /\ LET kind == FeedKind(current[1] - db_current[1])
       IN  /\ fetches' = Append(fetches, kind)
           /\ \E r \in src[kind] :
                IF ~r.ok THEN Finish(r.err) /\ UNCHANGED <<dates, pos>>
                ELSE /\ Step("u_loop")
                     /\ dates' = IF kind = "daily" THEN <<r.val>> ELSE r.val
                     /\ pos' = 1
                     /\ UNCHANGED disk
    /\ UNCHANGED <<pathExists, handle, current, db_current>>

\* One turn of `for date in dates.iter_mut().rev()` up to the put of the
\* snapshot; Ok(()) when the iterator is exhausted.
UpdateLoop(io) ==
    /\ pc = "u_loop"
    /\ IF pos > Len(IterOrder(dates)) THEN Finish("ok") /\ UNCHANGED pos
       ELSE LET date == dates[IterOrder(dates)[pos]]
                d == ValueAsDate(date.value)
            IN  IF ~d.ok THEN Finish(d.err) /\ UNCHANGED pos
                ELSE IF ~IsNewer(d.val, db_current[1])
                THEN Step("u_loop") /\ pos' = pos + 1 /\ UNCHANGED disk
                ELSE \E ok \in io :
                       IF ok THEN /\ Step("u_pointer")
                                  /\ Written(SnapshotEntry(date).k, SnapshotEntry(date).T,
                                             SnapshotEntry(date).x)
                                  /\ UNCHANGED pos
                       ELSE Finish("io_error") /\ UNCHANGED pos
    /\ UNCHANGED <<pathExists, handle, dates, current, db_current, fetches>>

\* self.put(b"current", &date_as_key(&date.value)?).await?
UpdatePutCurrent(io) ==
    /\ pc = "u_pointer"
    /\ LET date == dates[IterOrder(dates)[pos]]
       IN  \E ok \in io :
             IF ok THEN /\ Step("u_loop")
                        /\ Written(CurrentKey, "bytes", date_as_key(date.value).val)
                        /\ pos' = pos + 1
             ELSE Finish("io_error") /\ UNCHANGED pos
    /\ UNCHANGED <<pathExists, handle, dates, current, db_current, fetches>>

\* The process exits and the Db is dropped; the next start calls Db::init again.
Restart ==
    /\ pc = "idle"
    /\ rd.pc = "idle"
    /\ u2.pc = "idle"
    /\ handle
    /\ handle' = FALSE
    /\ again' = FALSE
    /\ reply' = NoReply
    /\ rd' = NoReader
    /\ u2' = NoUpdate2
    /\ UNCHANGED <<pathExists, store, pc, op, result, dates, pos, current,
                   db_current, fetches, store0, seenMax, remote, lastPut, unflushed>>

\* The remote publishes, or its lists go stale or catch up, between calls.
RemoteChange ==
    /\ pc = "idle"
    /\ u2.pc = "idle"
    /\ remote' \in RemoteStates \ {remote}
    /\ again' = FALSE
    /\ reply' = NoReply
    /\ u2' = NoUpdate2
    /\ UNCHANGED <<pathExists, handle, store, pc, op, result, dates, pos, current,
                   db_current, fetches, store0, seenMax, lastPut, unflushed, rd>>

Init ==
    /\ pathExists = FALSE
    /\ handle = FALSE
    /\ store = EmptyStore
    /\ pc = "idle"
    /\ op = "none"
    /\ result = "none"
    /\ dates = <<>>
    /\ pos = 0
    /\ current = <<>>
    /\ db_current = <<>>
    /\ fetches = <<>>
    /\ store0 = EmptyStore
    /\ seenMax = <<>>
    /\ remote = NoRemote
    /\ again = FALSE
    /\ lastPut = <<>>
    /\ unflushed = FALSE
    /\ reply = NoReply
    /\ rd = NoReader
    /\ u2 = NoUpdate2

Next ==
    \/ InitOpen(AnyIO)
    \/ Open(AnyIO)
    \/ InitBootstrap
    \/ BootstrapFetch(AnyFeed)
    \/ BootstrapOpen(AnyIO)
    \/ BootstrapPutCurrent(AnyIO)
    \/ BootstrapLoop(AnyIO)
    \/ BootstrapFlush(AnyIO)
    \/ UpdateStart
    \/ UpdateFetchDaily(AnyDaily)
    \/ UpdateGetCurrent(AnyIO)
    \/ UpdateFetchDates(AnySource)
    \/ UpdateLoop(AnyIO)
    \/ UpdatePutCurrent(AnyIO)
    \/ Restart

\* Any feed, any failure.
Spec == Init /\ [][Next]_vars

NextSorted ==
    \/ InitOpen(AnyIO)
    \/ Open(AnyIO)
    \/ InitBootstrap
    \/ BootstrapFetch(SortedFeed)
    \/ BootstrapOpen(AnyIO)
    \/ BootstrapPutCurrent(AnyIO)
    \/ BootstrapLoop(AnyIO)
    \/ BootstrapFlush(AnyIO)
    \/ UpdateStart
    \/ UpdateFetchDaily(AnyDaily)
    \/ UpdateGetCurrent(AnyIO)
    \/ UpdateFetchDates(SortedSource)
    \/ UpdateLoop(AnyIO)
    \/ UpdatePutCurrent(AnyIO)
    \/ Restart

\* Every feed newest-first, any failure.
SpecSorted == Init /\ [][NextSorted]_vars

InitRemote ==
    /\ pathExists = FALSE
    /\ handle = FALSE
    /\ store = EmptyStore
    /\ pc = "idle"
    /\ op = "none"
    /\ result = "none"
    /\ dates = <<>>
    /\ pos = 0
    /\ current = <<>>
    /\ db_current = <<>>
    /\ fetches = <<>>
    /\ store0 = EmptyStore
    /\ seenMax = <<>>
    /\ remote \in RemoteStates
    /\ again = FALSE
    /\ lastPut = <<>>
    /\ unflushed = FALSE
    /\ reply = NoReply
    /\ rd = NoReader
    /\ u2 = NoUpdate2

NextRemote ==
    \/ InitOpen(NoFault)
    \/ Open(NoFault)
    \/ InitBootstrap
    \/ BootstrapFetch(RemoteSource.hist)
    \/ BootstrapOpen(NoFault)
    \/ BootstrapPutCurrent(NoFault)
    \/ BootstrapLoop(NoFault)
    \/ BootstrapFlush(NoFault)
    \/ UpdateStart
    \/ UpdateFetchDaily(RemoteSource.daily)
    \/ UpdateGetCurrent(NoFault)
    \/ UpdateFetchDates(RemoteSource)
    \/ UpdateLoop(NoFault)
    \/ UpdatePutCurrent(NoFault)
    \/ Restart
    \/ RemoteChange

\* The feeds served from one published history that changes between calls; no
\* store or fetch failure.
SpecRemote == InitRemote /\ [][NextRemote]_vars

--------------------------------------------------------------------------
\* Properties.

\* Keys compared as unsigned byte sequences (sled's key order).
RECURSIVE BytesLess(_, _)
BytesLess(a, b) ==
    IF b = <<>> THEN FALSE
    ELSE IF a = <<>> THEN TRUE
    ELSE IF Head(a) # Head(b) THEN Head(a) < Head(b)
    ELSE BytesLess(Tail(a), Tail(b))

\* The keys of the snapshot entries of a store.
SnapshotKeys(s) == DOMAIN s \ {CurrentKey}

\* The key held by the 'current' entry.
Pointer(s) == s[CurrentKey].v

\* A call has just returned or none was made.
Idle == pc = "idle"

\* An update has returned Ok after finding the fetched daily date later than
\* the stored current date.
UpdatedOk ==
    /\ Idle /\ op = "update" /\ result = "ok"
    /\ current # <<>> /\ db_current # <<>>
    /\ current[1] > db_current[1]

\* C1: whenever the 'current' entry exists, the key it holds is the key of a
\* snapshot entry of the store, in every state, the states between two puts
\* and after a failed call included.
C1_PointerNeverDangles ==
    CurrentKey \in DOMAIN store => Pointer(store) \in SnapshotKeys(store)

\* C2: between calls, with every feed newest-first and whether the calls so far
\* succeeded or failed, the 'current' entry holds the greatest snapshot key of
\* the store.
C2_PointerIsMaxKey ==
    (Idle /\ DOMAIN store # {}) =>
        /\ CurrentKey \in DOMAIN store
        /\ Pointer(store) \in SnapshotKeys(store)
        /\ \A k \in SnapshotKeys(store) : ~BytesLess(Pointer(store), k)

\* C3: after each successful call the date the pointer resolves to is at least
\* the date it resolved to after every earlier successful call, whatever the
\* feeds returned and in whatever order.
C3_CurrentNeverDecreases ==
    (Idle /\ result = "ok" /\ seenMax # <<>>) =>
        /\ CurrentDate(store).ok
        /\ CurrentDate(store).val >= seenMax[1]

\* C3 witness: a successful update fed an unordered list has moved the pointer
\* forward.
C3_Witness ==
    /\ UpdatedOk
    /\ ~NewestFirst(dates)
    /\ CurrentDate(store0).ok /\ CurrentDate(store).ok
    /\ CurrentDate(store).val > CurrentDate(store0).val

\* C4: a bootstrap that failed, at whatever step, has left no 'current' entry
\* (the pointer is put after every snapshot).
C4_FailedBootstrapLeavesNoPointer ==
    (Idle /\ op = "bootstrap" /\ result \notin {"ok", "none"}) =>
        CurrentKey \notin DOMAIN store

\* C5: after a successful bootstrap of a fresh store from a newest-first feed F
\* (one snapshot per day), getCurrent returns F's first snapshot and getDay(d)
\* returns F's snapshot of d, each with the EUR entry appended, and nothing for
\* a day F does not list.
C5_BootstrapServesFeed ==
    (Idle /\ op = "bootstrap" /\ result = "ok" /\ StrictNewestFirst(dates)) =>
        /\ get_current_rates(store) = Ok(WithEUR(dates[1]))
        /\ \A i \in 1..Len(dates) :
             get_day_rates(store, dates[i].value) = Ok(<<WithEUR(dates[i])>>)
        /\ \A v \in ValidDateStrs :
             (\A i \in 1..Len(dates) : dates[i].value # v)
                 => get_day_rates(store, v) = Ok(<<>>)

\* C5 witness: a bootstrap from a feed of two days has succeeded.
C5_Witness ==
    /\ Idle /\ op = "bootstrap" /\ result = "ok"
    /\ StrictNewestFirst(dates) /\ Len(dates) = 2

\* The remote operations the specification prescribes for a gap of d days.
PlannedFetches(d) ==
    <<"daily">> \o (IF d > NinetyDays THEN <<"hist">>
                    ELSE IF d > OneDay THEN <<"last90">>
                    ELSE <<>>)

\* C6: an update whose daily date is d days later than the stored current date
\* invokes fetchDaily once, then fetchHistorical once iff d > 90, fetchLast90Days
\* once iff 1 < d <= 90, and nothing more for d <= 1.
C6_FetchPlan ==
    (op = "update" /\ (pc \in {"u_loop", "u_pointer"} \/ UpdatedOk)) =>
        fetches = PlannedFetches(current[1] - db_current[1])

\* The newest-first feed of a successful update that found the daily date later
\* than the stored current date.
UpdatedFromSortedFeed ==
    /\ UpdatedOk
    /\ dates # <<>>
    /\ \A i \in 1..Len(dates) : IsValidDate(dates[i].value)
    /\ NewestFirst(dates)

\* C7 as stated: after such an update the 'current' entry holds the key of the
\* newest fetched date, however many fetched snapshots were strictly newer than
\* the stored current date.
C7_PointerAtNewestFetched ==
    UpdatedFromSortedFeed =>
        Pointer(store) = date_as_key(dates[1].value).val

\* C7 amended: the same, for a feed that holds at least one snapshot strictly
\* newer than the stored current date; otherwise the entry is left as it was.
C7_PointerAtNewestNewer ==
    UpdatedFromSortedFeed =>
        IF Day(dates[1].value) > db_current[1]
        THEN Pointer(store) = date_as_key(dates[1].value).val
        ELSE store = store0

\* C7 witness: the feed held two snapshots newer than the stored current date.
C7_Witness ==
    /\ UpdatedFromSortedFeed
    /\ Len(dates) = 2
    /\ Day(dates[1].value) > Day(dates[2].value)
    /\ Day(dates[2].value) > db_current[1]

\* C8: when an update returns Ok after finding the daily date t later than the
\* stored current date c, with the feeds served from one published history and
\* none stale, the store holds a snapshot for every published day in (c, t].
C8_CatchesUp ==
    [][ ( /\ pc # "idle" /\ pc' = "idle"
          /\ op = "update" /\ result' = "ok"
          /\ HeadedByDaily(remote)
          /\ current # <<>> /\ db_current # <<>>
          /\ current[1] > db_current[1] )
        => \A i \in 1..Len(remote.hist) :
             (Day(remote.hist[i].value) > db_current[1]
                 /\ Day(remote.hist[i].value) <= current[1])
               => date_as_key(remote.hist[i].value).val \in DOMAIN store' ]_vars

\* A step of a call that follows a successful update with the remote unchanged
\* changes no store entry, and the call returns Ok.
RepeatIsNoOp ==
    /\ store' = store
    /\ (pc # "idle" /\ pc' = "idle") => result' = "ok"

C10_RegressionPutsNothing ==
    (op = "update" /\ current # <<>> /\ db_current # <<>>
        /\ current[1] < db_current[1]) =>
        /\ Idle
        /\ result = "regression"
        /\ store = store0

\* C10 witness: an update has returned the regression error on a store that
\* holds snapshots.
C10_Witness ==
    /\ Idle /\ op = "update" /\ result = "regression"
    /\ current[1] < db_current[1]
    /\ SnapshotKeys(store) # {}

\* The places in a snapshot's currency list that name EUR.
EURPlaces(snapshot) ==
    { i \in DOMAIN snapshot.currencies : snapshot.currencies[i].name = "EUR" }

\* C11: the feeds supply no EUR entry; then in every reachable state every
\* snapshot entry of the store, whether bootstrap wrote it, update wrote it or a
\* repeated or retried update wrote it again, decodes to a snapshot with
\* exactly one currency named EUR, and that one has rate 1.0.
C11_SnapshotsHoldOneEUR ==
    \A k \in SnapshotKeys(store) :
        /\ Deserialize("Date", store[k]).ok
        /\ Cardinality(EURPlaces(store[k].v)) = 1
        /\ \A i \in EURPlaces(store[k].v) : store[k].v.currencies[i] = EUR

\* An update has returned after writing again, with other rates, a snapshot
\* that was in the store when it started.
C11_Witness ==
    /\ Idle /\ op = "update"
    /\ \E k \in SnapshotKeys(store0) : store[k] # store0[k]

--------------------------------------------------------------------------
\* date_as_key on its own.

\* Date strings handed to date_as_key: the first and last days whose midnight
\* timestamp fits 32 bits, days on both sides of 1970-01-01, the day of the
\* test (1999-01-04), feed days, and a string that is no date.
KeyDateStrs ==
    { <<1901, 12, 14>>, <<1960, 2, 29>>, <<1969, 12, 30>>, <<1969, 12, 31>>,
      <<1970, 1, 1>>, <<1970, 1, 2>>, <<1999, 1, 4>>, <<2020, 1, 1>>,
      <<2020, 1, 2>>, <<2038, 1, 19>>, BadDateStr }

\* Two date strings are chosen.
InitKeys ==
    /\ Init!1 /\ Init!2 /\ Init!3 /\ Init!4 /\ Init!5 /\ Init!6 /\ Init!7
    /\ Init!8 /\ Init!9 /\ Init!10 /\ Init!11 /\ Init!12 /\ Init!13
    /\ Init!14 /\ Init!15 /\ Init!16 /\ Init!17 /\ Init!19 /\ Init!20
    /\ reply \in { [q |-> "dates", d1 |-> a, d2 |-> b] : a, b \in KeyDateStrs }

\* date_as_key is applied to each.
EncodeKeys ==
    /\ reply.q = "dates"
    /\ reply' = [q |-> "keys", d1 |-> reply.d1, d2 |-> reply.d2,
                 k1 |-> date_as_key(reply.d1), k2 |-> date_as_key(reply.d2)]
    /\ UNCHANGED <<pathExists, handle, store, pc, op, result, dates, pos, current,
                   db_current, fetches, store0, seenMax, remote, again, lastPut,
                   unflushed, rd, u2>>

NextKeys == EncodeKeys

SpecKeys == InitKeys /\ [][NextKeys]_vars

\* Two valid date strings have been encoded.
Encoded == reply.q = "keys" /\ reply.k1.ok /\ reply.k2.ok

\* C12: for all valid calendar dates d1 < d2, dates before 1970-01-01
\* included, the key of d1 is below the key of d2 in unsigned byte order, and
\* equal dates have equal keys.
C12_KeyOrderIsDateOrder ==
    Encoded =>
        /\ ParseDate(reply.d1).val < ParseDate(reply.d2).val
              => BytesLess(reply.k1.val, reply.k2.val)
        /\ reply.d1 = reply.d2 => reply.k1 = reply.k2

--------------------------------------------------------------------------
\* The read operations, called between the writing calls.

\* The civil date <<y, m, d>> of a number of days since 1970-01-01.
CivilFromDays(z) ==
    LET zz  == z + 719468
        era == zz \div 146097
        doe == zz - era * 146097
        yoe == (doe - doe \div 1460 + doe \div 36524 - doe \div 146096) \div 365
        doy == doe - (365 * yoe + yoe \div 4 - yoe \div 100)
        mp  == (5 * doy + 2) \div 153
        d   == doy - (153 * mp + 2) \div 5 + 1
        m   == IF mp < 10 THEN mp + 3 ELSE mp - 9
        y   == yoe + era * 400
    IN  << IF m <= 2 THEN y + 1 ELSE y, m, d >>

\* NaiveDate::to_string: the "YYYY-MM-DD" text of a date.
to_string(day) == CivilFromDays(day)

\* The keys of a set in ascending byte order.
RECURSIVE Ascending(_)
Ascending(K) ==
    IF K = {} THEN <<>>
    ELSE LET least == CHOOSE k \in K : \A j \in K \ {k} : BytesLess(k, j)
         IN  <<least>> \o Ascending(K \ {least})

\* db.range(range_start..=range_end): the entries with keys from lo to hi, both
\* included, in ascending key order (none when lo is above hi).
Range(s, lo, hi) ==
    Ascending({ k \in DOMAIN s : ~BytesLess(k, lo) /\ ~BytesLess(hi, k) })

\* .collect::<Result<Vec<Date>, _>>(): every value decoded, or the first error.
Collect(rs) ==
    IF \E i \in DOMAIN rs : ~rs[i].ok
    THEN rs[CHOOSE i \in DOMAIN rs : ~rs[i].ok /\ \A j \in 1..(i - 1) : rs[j].ok]
    ELSE Ok([i \in DOMAIN rs |-> rs[i].val])

\* Db::get_range_rates
get_range_rates(s, start_at, end_at) ==
    LET range_start == date_as_key(to_string(start_at))
        range_end == date_as_key(to_string(end_at))
    IN  IF ~range_start.ok THEN range_start
        ELSE IF ~range_end.ok THEN range_end
        ELSE LET keys == Range(s, range_start.val, range_end.val)
             IN  Collect([i \in DOMAIN keys |-> Deserialize("Date", s[keys[i]])])

\* The dates of the snapshots a client puts and asks for: the day before
\* 1970-01-01 and three days of the feeds.
StoreDateStrs == { <<1969, 12, 31>>, <<2020, 1, 1>>, <<2020, 1, 2>>, <<2020, 3, 31>> }

\* The days a client asks ranges between.
RangeDays == { ParseDate(v).val : v \in StoreDateStrs }

\* Db::open on a path, as the tests of db.rs do: an empty store in hand.
InitStore ==
    /\ Init!3 /\ Init!4 /\ Init!5 /\ Init!6 /\ Init!7 /\ Init!8 /\ Init!9
    /\ Init!10 /\ Init!11 /\ Init!12 /\ Init!13 /\ Init!14 /\ Init!15
    /\ Init!16 /\ Init!17 /\ Init!18 /\ Init!19 /\ Init!20
    /\ pathExists = TRUE
    /\ handle = TRUE

\* db.put(&key, &date) with key = date_as_key(&date.value): a snapshot is put
\* under the key of its date.
PutDate ==
    /\ pc = "idle" /\ handle
    /\ \E v \in StoreDateStrs, r \in FeedRates :
         Written(date_as_key(v).val, "Date", Date(v, <<Currency("USD", r)>>))
    /\ reply' = NoReply
    /\ store0' = store
    /\ UNCHANGED <<pathExists, handle, pc, op, result, dates, pos, current,
                   db_current, fetches, seenMax, remote, again, rd, u2>>

\* db.put(b"current", &key): the pointer is put, holding the key of a date.
PutPointer ==
    /\ pc = "idle" /\ handle
    /\ \E v \in StoreDateStrs : Written(CurrentKey, "bytes", date_as_key(v).val)
    /\ reply' = NoReply
    /\ store0' = store
    /\ UNCHANGED <<pathExists, handle, pc, op, result, dates, pos, current,
                   db_current, fetches, seenMax, remote, again, rd, u2>>

\* A client holding the Db calls get_current_rates.
QueryCurrent ==
    /\ pc = "idle" /\ handle
    /\ reply' = [q |-> "current", r |-> get_current_rates(store)]
    /\ UNCHANGED <<pathExists, handle, store, pc, op, result, dates, pos, current,
                   db_current, fetches, store0, seenMax, remote, again, lastPut,
                   unflushed, rd, u2>>

\* A client holding the Db calls get_day_rates(day).
QueryDay ==
    /\ pc = "idle" /\ handle
    /\ \E day \in StoreDateStrs \cup {BadDateStr} :
         reply' = [q |-> "day", day |-> day, r |-> get_day_rates(store, day)]
    /\ UNCHANGED <<pathExists, handle, store, pc, op, result, dates, pos, current,
                   db_current, fetches, store0, seenMax, remote, again, lastPut,
                   unflushed, rd, u2>>

\* A client holding the Db calls get_range_rates(start_at, end_at) with
\* start_at <= end_at.
QueryRange ==
    /\ pc = "idle" /\ handle
    /\ \E start_at \in RangeDays, end_at \in RangeDays :
         /\ start_at <= end_at
         /\ reply' = [q |-> "range", start_at |-> start_at, end_at |-> end_at,
                      r |-> get_range_rates(store, start_at, end_at)]
    /\ UNCHANGED <<pathExists, handle, store, pc, op, result, dates, pos, current,
                   db_current, fetches, store0, seenMax, remote, again, lastPut,
                   unflushed, rd, u2>>

NextStore ==
    \/ PutDate
    \/ PutPointer
    \/ QueryCurrent
    \/ QueryDay
    \/ QueryRange

\* Any sequence of puts of snapshots and of the pointer on an open store, with
\* reads between them.
SpecStore == InitStore /\ [][NextStore]_vars

\* The stored snapshots dated from start_at to end_at, both included.
SnapshotsWithin(s, start_at, end_at) ==
    { s[k].v : k \in { j \in SnapshotKeys(s) :
                         /\ start_at <= Day(s[j].v.value)
                         /\ Day(s[j].v.value) <= end_at } }

\* C13: for any store contents and any dates start <= end, get_range_rates
\* succeeds and returns exactly the stored snapshots dated from start to end,
\* both included, nothing missing and nothing extra, in ascending order of
\* date; the 'current' entry is neither returned nor decoded.
C13_RangeIsExact ==
    reply.q = "range" =>
        /\ reply.r.ok
        /\ { reply.r.val[i] : i \in DOMAIN reply.r.val }
             = SnapshotsWithin(store, reply.start_at, reply.end_at)
        /\ \A i, j \in DOMAIN reply.r.val :
             i < j => Day(reply.r.val[i].value) < Day(reply.r.val[j].value)

\* What get_day_rates is to answer for a valid date string: the value of the
\* latest put under the key of the date, or absence when there was no put.
LatestPut(day) ==
    LET k == date_as_key(day).val
    IN  IF k \in DOMAIN lastPut THEN Ok(<<lastPut[k]>>) ELSE Ok(<<>>)

\* C14: after any sequence of puts, get_day_rates(d) succeeds with the
\* snapshot most recently put under the key of d, or with absence when no
\* snapshot was ever put for d, and it leaves every store entry as it was.
C14_DayIsLatestPut ==
    [][ (reply'.q = "day" /\ IsValidDate(reply'.day))
            => /\ reply'.r = LatestPut(reply'.day)
               /\ store' = store ]_vars

\* get_day_rates has answered for a date whose snapshot the latest put
\* replaced with another.
C14_Witness ==
    /\ reply.q = "day" /\ IsValidDate(reply.day)
    /\ reply.r.ok /\ reply.r.val # <<>>
    /\ date_as_key(reply.day).val \in DOMAIN store0
    /\ store0[date_as_key(reply.day).val].v # reply.r.val[1]

\* C15: get_current_rates returns the snapshot stored at the key the 'current'
\* entry holds; when the 'current' entry is missing, or the key it holds has
\* no snapshot entry, it fails with an error and returns neither a snapshot
\* nor absence.
C15_CurrentOrError ==
    reply.q = "current" =>
        IF CurrentKey \in DOMAIN store /\ Pointer(store) \in SnapshotKeys(store)
        THEN reply.r = Ok(store[Pointer(store)].v)
        ELSE ~reply.r.ok

\* get_current_rates has answered on a store whose 'current' entry holds a key
\* with no snapshot entry, beside snapshots under other keys.
C15_Witness ==
    /\ reply.q = "current"
    /\ CurrentKey \in DOMAIN store
    /\ Pointer(store) \notin SnapshotKeys(store)
    /\ SnapshotKeys(store) # {}

--------------------------------------------------------------------------
\* get_current_rates running beside the writing calls, one store access at a
\* time.

\* The current date from before the update in progress, or the current date
\* when no update is in progress.
DateBeforeUpdate ==
    IF op = "update" /\ pc # "idle" THEN CurrentDate(store0) ELSE CurrentDate(store)

\* self.get::<Vec<u8>>(b"current").await?.ok_or_else(..)?
ReaderGetPointer ==
    /\ handle
    /\ rd.pc = "idle"
    /\ LET cur == Get(store, "bytes", CurrentKey)
       IN  rd' = IF ~cur.ok THEN [pc |-> "idle", q |-> "current", r |-> cur]
                 ELSE IF cur.val = <<>>
                 THEN [pc |-> "idle", q |-> "current", r |-> Err("missing_current")]
                 ELSE [pc |-> "target", q |-> "current", key |-> cur.val[1],
                       floor |-> DateBeforeUpdate]
    /\ UNCHANGED <<pathExists, handle, store, pc, op, result, dates, pos, current,
                   db_current, fetches, store0, seenMax, remote, again, lastPut,
                   unflushed, reply, u2>>

\* self.get::<Date>(&current).await?.ok_or_else(..)?; Ok(date)
ReaderGetTarget ==
    /\ rd.pc = "target"
    /\ LET date == Get(store, "Date", rd.key)
       IN  rd' = [pc |-> "idle", q |-> "current",
                  r |-> IF ~date.ok THEN date
                        ELSE IF date.val = <<>> THEN Err("missing_target")
                        ELSE Ok(date.val[1])]
    /\ UNCHANGED <<pathExists, handle, store, pc, op, result, dates, pos, current,
                   db_current, fetches, store0, seenMax, remote, again, lastPut,
                   unflushed, reply, u2>>

NextReaders ==
    \/ NextRemote
    \/ ReaderGetPointer
    \/ ReaderGetTarget

\* The calls of SpecRemote with get_current_rates calls beside them.
SpecReaders == InitRemote /\ [][NextReaders]_vars

\* C16: get_current_rates calls run beside one update in progress on a
\* bootstrapped store, interleaved store access by store access; each of them
\* succeeds, neither missing the pointer nor the snapshot it points at, and
\* returns a snapshot as stored, dated no earlier than the current date from
\* before the update.
C16_ReaderBesideUpdate ==
    [][ (rd'.pc = "idle" /\ rd' # rd /\ rd' # NoReader)
            => /\ rd'.r.ok
               /\ \E k \in SnapshotKeys(store) : store[k].v = rd'.r.val
               /\ rd.pc = "target" /\ rd.floor.ok
               /\ Day(rd'.r.val.value) >= rd.floor.val ]_vars

\* A get_current_rates call has returned while an update is between two
\* writes: it returned a snapshot the update wrote, later than the current date
\* from before the update, and the update has moved the pointer on since.
C16_Witness ==
    /\ op = "update" /\ pc \in {"u_loop", "u_pointer"}
    /\ rd.pc = "idle" /\ rd.q = "current" /\ rd.r.ok
    /\ Day(rd.r.val.value) > CurrentDate(store0).val
    /\ Pointer(store) # date_as_key(rd.r.val.value).val

--------------------------------------------------------------------------
\* Durability, frame, concurrent updates and init.

\* C17: whenever bootstrap or update returns success, a flush issued after the
\* writes of the call has made every snapshot put and the pointer put of the
\* call durable: no put of the call is left without a flush behind it.
C17_SuccessIsFlushed ==
    (Idle /\ op \in {"bootstrap", "update"} /\ result = "ok") => ~unflushed

\* The entry under the key of a date string is the same in two stores: absent
\* from both, or present in both with the same content.
SameEntry(s, t, v) ==
    LET k == date_as_key(v).val
    IN  /\ (k \in DOMAIN s) = (k \in DOMAIN t)
        /\ k \in DOMAIN s => s[k] = t[k]

\* C18: an update call never puts, overwrites or deletes a snapshot entry
\* whose date is not strictly later than the stored current date it read at
\* its start: those entries are the same before and after the call, whether
\* it succeeds or fails partway, whatever dates the fetched feed holds.
C18_UpdateKeepsOlderEntries ==
    op = "update" =>
        IF db_current = <<>> THEN store = store0
        ELSE \A v \in ValidDateStrs :
                 Day(v) <= db_current[1] => SameEntry(store, store0, v)

\* An update has failed partway after writing to the store, and its feed
\* held, for a date not later than the stored current date, a snapshot with
\* other rates than the stored one.
C18_Witness ==
    /\ Idle /\ op = "update" /\ result = "io_error"
    /\ store # store0
    /\ \E i \in DOMAIN dates :
         /\ ValueAsDate(dates[i].value).ok
         /\ Day(dates[i].value) <= db_current[1]
         /\ date_as_key(dates[i].value).val \in DOMAIN store0
         /\ store0[date_as_key(dates[i].value).val].v # WithEUR(dates[i])

--------------------------------------------------------------------------
\* A second Db::update call on the same Db, started while the first is in
\* progress; its locals are the fields of u2.

\* What a step of the second call leaves alone.
Update2Frame ==
    UNCHANGED <<pathExists, handle, pc, op, result, dates, pos, current,
                db_current, fetches, store0, seenMax, remote, again, reply, rd>>

\* The second call returns r; its locals stay as they were.
Update2Return(r) == u2' = [u2 EXCEPT !.pc = "idle", !.result = r]

\* pub async fn update(&self), entered while another call is inside it.
Update2Start ==
    /\ handle
    /\ op = "update" /\ pc # "idle"
    /\ u2 = NoUpdate2
    /\ u2' = [pc |-> "u_daily", result |-> "none", current |-> <<>>,
              db_current |-> <<>>, dates |-> <<>>, pos |-> 0]
    /\ UNCHANGED disk
    /\ Update2Frame

\* let current = currencies::fetch_daily().await?.value_as_date()?
Update2FetchDaily(rs) ==
    /\ u2.pc = "u_daily"
    /\ \E r \in rs :
         IF ~r.ok THEN Update2Return(r.err)
         ELSE LET d == ValueAsDate(r.val.value)
              IN  IF ~d.ok THEN Update2Return(d.err)
                  ELSE u2' = [u2 EXCEPT !.pc = "u_current", !.current = <<d.val>>]
    /\ UNCHANGED disk
    /\ Update2Frame

\* let db_current = self.get_current_rates().await?.value_as_date()?, then the
\* match on current.cmp(&db_current).
Update2GetCurrent ==
    /\ u2.pc = "u_current"
    /\ LET d == CurrentDate(store)
       IN  IF ~d.ok THEN Update2Return(d.err)
           ELSE CASE Cmp(u2.current[1], d.val) = "Equal" -> Update2Return("ok")
                  [] Cmp(u2.current[1], d.val) = "Less" -> Update2Return("regression")
                  [] OTHER -> u2' = [u2 EXCEPT !.pc = "u_fetch", !.db_current = <<d.val>>]
    /\ UNCHANGED disk
    /\ Update2Frame

\* let mut dates = match current - db_current { .. }
Update2FetchDates(src) ==
    /\ u2.pc = "u_fetch"
    /\ LET kind == FeedKind(u2.current[1] - u2.db_current[1])
       IN  \E r \in src[kind] :
             IF ~r.ok THEN Update2Return(r.err)
             ELSE u2' = [u2 EXCEPT !.pc = "u_loop", !.pos = 1,
                                   !.dates = IF kind = "daily" THEN <<r.val>> ELSE r.val]
    /\ UNCHANGED disk
    /\ Update2Frame

\* One turn of `for date in dates.iter_mut().rev()` up to the put of the
\* snapshot; Ok(()) when the iterator is exhausted.
Update2Loop ==
    /\ u2.pc = "u_loop"
    /\ IF u2.pos > Len(IterOrder(u2.dates)) THEN Update2Return("ok") /\ UNCHANGED disk
       ELSE LET date == u2.dates[IterOrder(u2.dates)[u2.pos]]
                d == ValueAsDate(date.value)
            IN  IF ~d.ok THEN Update2Return(d.err) /\ UNCHANGED disk
                ELSE IF ~IsNewer(d.val, u2.db_current[1])
                THEN u2' = [u2 EXCEPT !.pos = @ + 1] /\ UNCHANGED disk
                ELSE /\ u2' = [u2 EXCEPT !.pc = "u_pointer"]
                     /\ Written(SnapshotEntry(date).k, SnapshotEntry(date).T,
                                SnapshotEntry(date).x)
    /\ Update2Frame

\* self.put(b"current", &date_as_key(&date.value)?).await?
Update2PutCurrent ==
    /\ u2.pc = "u_pointer"
    /\ LET date == u2.dates[IterOrder(u2.dates)[u2.pos]]
       IN  /\ u2' = [u2 EXCEPT !.pc = "u_loop", !.pos = @ + 1]
           /\ Written(CurrentKey, "bytes", date_as_key(date.value).val)
    /\ Update2Frame

NextTwoUpdates ==
    \/ NextRemote
    \/ Update2Start
    \/ Update2FetchDaily(RemoteSource.daily)
    \/ Update2GetCurrent
    \/ Update2FetchDates(RemoteSource)
    \/ Update2Loop
    \/ Update2PutCurrent

\* The calls of SpecRemote with a second update beside an update in progress;
\* the remote does not change while either is running.
SpecTwoUpdates == InitRemote /\ [][NextTwoUpdates]_vars

\* Both interleaved updates have returned.
BothReturned == pc = "idle" /\ op = "update" /\ u2.pc = "idle" /\ u2.result # "none"

\* The pointer holds the greatest snapshot key of the store.
PointerIsMax(s) ==
    /\ CurrentKey \in DOMAIN s
    /\ Pointer(s) \in SnapshotKeys(s)
    /\ \A k \in SnapshotKeys(s) : ~BytesLess(Pointer(s), k)

\* The last of the two interleaved updates returns.
LastReturns == ~BothReturned /\ BothReturned'

C20_InitHandsOutBootstrappedStore ==
    (Idle /\ op \in {"open", "bootstrap"} /\ result = "ok")
        => /\ get_current_rates(store).ok
           /\ op = "bootstrap"
                 => \A i \in DOMAIN dates :
                        date_as_key(dates[i].value).val \in SnapshotKeys(store)

====
